---- MODULE Spec2Model ----
(***************************************************************************)
(* Model of the command store of Gi60s/eventsource:                        *)
(*   src/unnamed/part_000  (server/command.js: add, handle, query, query2, *)
(*                          buildQuery, parseTime, and the v1/logs handler)*)
(*   src/command/server.js (the HTTP layer that serves query results)      *)
(*                                                                         *)
(* JavaScript values are records [t, s, n]: t is the result of typeof,     *)
(* s the text of a string (or the name of a special value), n the value    *)
(* of a number.  Objects are functions whose DOMAIN is the set of own      *)
(* properties, so hasOwnProperty is membership in the DOMAIN.              *)
(***************************************************************************)
EXTENDS Integers, Sequences, FiniteSets, TLC

\* ------------------------------------------------------------------ bounds
\* number of records already in the v1/logs collection when the process starts
MaxSeed == 3
\* number of items add builds in one behaviour
MaxAdds == 1
\* largest defaultLimit / maxLimit a configuration file sets
MaxConfigLimit == 2

\* ------------------------------------------------------------- JS values
Str(s) == [t |-> "string", s |-> s, n |-> 0]
Num(n) == [t |-> "number", s |-> "", n |-> n]
NaN == [t |-> "number", s |-> "NaN", n |-> 0]
Undefined == [t |-> "undefined", s |-> "", n |-> 0]
Null == [t |-> "object", s |-> "null", n |-> 0]
Bool(b) == [t |-> "boolean", s |-> IF b THEN "true" ELSE "false", n |-> 0]

typeof(v) == v.t

IsNumber(v) == v.t = "number" /\ v.s = ""

\* the decimal integer literals that occur as strings in requests
IntText == ("-3" :> -3) @@ ("-2" :> -2) @@ ("-1" :> -1) @@ ("0" :> 0) @@ ("1" :> 1)
             @@ ("2" :> 2) @@ ("3" :> 3) @@ ("4" :> 4) @@ ("5" :> 5) @@ ("6" :> 6)
             @@ ("7" :> 7) @@ ("8" :> 8)

\* the texts with a decimal point that occur in requests, and parseFloat of
\* them: a number that is no integer keeps its text in s and its integer
\* part in n
FloatText == ("1.5" :> 1)
Float(text) == [t |-> "number", s |-> text, n |-> FloatText[text]]

\* Number(v): the conversion isNaN applies to its argument
ToNumber(v) ==
    CASE v.t = "number" -> v
      [] v.t = "string" -> IF v.s = "" THEN Num(0)
                           ELSE IF v.s \in DOMAIN IntText THEN Num(IntText[v.s])
                           ELSE IF v.s \in DOMAIN FloatText THEN Float(v.s)
                           ELSE NaN
      [] v.t = "boolean" -> Num(IF v.s = "true" THEN 1 ELSE 0)
      [] v.t = "undefined" -> NaN
      [] OTHER -> Num(0)

isNaN(v) == ToNumber(v) = NaN

\* parseInt(v): parses the text of v; the empty string, booleans, null and
\* undefined have no leading digits and give NaN
parseInt(v) ==
    CASE v.t = "number" -> IF v.s = "NaN" THEN NaN ELSE Num(v.n)
      [] v.t = "string" -> IF v.s \in DOMAIN IntText THEN Num(IntText[v.s])
                           ELSE IF v.s \in DOMAIN FloatText THEN Num(FloatText[v.s])
                           ELSE NaN
      [] OTHER -> NaN

\* /\./.test(v)
HasDot(v) == v.t = "string" /\ v.s \in DOMAIN FloatText

parseFloat(v) ==
    CASE v.t = "number" -> v
      [] v.t = "string" -> IF v.s \in DOMAIN FloatText THEN Float(v.s)
                           ELSE IF v.s \in DOMAIN IntText THEN Num(IntText[v.s])
                           ELSE NaN
      [] OTHER -> NaN

\* the date strings that occur in requests, and new Date(text).valueOf()
DateText == ("1970-01-01T00:00:00.002Z" :> 2)

\* a - b, a < b, a > b on JS numbers: NaN poisons arithmetic and fails
\* every comparison
Minus(a, b) == IF IsNumber(a) /\ IsNumber(b) THEN Num(a.n - b.n) ELSE NaN
Plus(a, b) == IF IsNumber(a) /\ IsNumber(b) THEN Num(a.n + b.n) ELSE NaN
Less(a, b) == IsNumber(a) /\ IsNumber(b) /\ a.n < b.n
Greater(a, b) == Less(b, a)

\* truthiness of a value in a condition
Truthy(v) ==
    CASE v.t = "string" -> v.s # ""
      [] v.t = "number" -> v.s # "NaN" /\ (v.s # "" \/ v.n # 0)
      [] v.t = "boolean" -> v.s = "true"
      [] OTHER -> FALSE

hasOwnProperty(obj, key) == key \in DOMAIN obj

EmptyObject == [k \in {} |-> Undefined]

\* ------------------------------------------------- handler configurations
\* One rule of an index configuration (the documented options of handle):
\* defaultValue, required, type, validator, value.  An option that is not
\* set is Undefined / FALSE / "".  validator, value and transform hold the
\* name of a function, or "notAFunction" for a value that is no function.
Rule(defaultValue, required, type, validator, value) ==
    [defaultValue |-> defaultValue, required |-> required, type |-> type,
     validator |-> validator, value |-> value]

\* an index configuration object: its properties and their Object.keys order
Indexes(keys, props) == [keys |-> keys, props |-> props]

ObjectKeys(indexes) == indexes.keys

LogTypes == {"info", "warn", "error"}

\* the rule of the v1/logs handler
LogTypeRule == Rule(Undefined, TRUE, "string", "isLogType", "")

\* command.handle('v1/logs', {type: {required, type: 'string', validator}})
LogsIndexes == Indexes(<<"type">>, [k \in {"type"} |-> LogTypeRule])

\* {type: <as v1/logs>,
\*  level: {defaultValue: 1, type: 'number', validator: v => v > 0,
\*          value: v => LEVELS[v].name}}
LevelIndexes ==
    Indexes(<<"type", "level">>,
            [k \in {"type", "level"} |->
                IF k = "type" THEN LogTypeRule
                ELSE Rule(Num(1), FALSE, "number", "isPositive", "levelName")])

\* optional fields: a type with a default that passes its checks, a level
\* with no default
OptionalIndexes ==
    Indexes(<<"type", "level">>,
            [k \in {"type", "level"} |->
                IF k = "type" THEN Rule(Str("info"), FALSE, "string", "isLogType", "")
                ELSE Rule(Undefined, FALSE, "number", "", "")])

\* configurations that handle must refuse
BadTypeIndexes ==
    Indexes(<<"type">>, [k \in {"type"} |-> Rule(Undefined, TRUE, "date", "", "")])
BadValidatorIndexes ==
    Indexes(<<"type">>, [k \in {"type"} |-> Rule(Undefined, FALSE, "string", "notAFunction", "")])
BadValueIndexes ==
    Indexes(<<"type">>, [k \in {"type"} |-> Rule(Undefined, FALSE, "", "", "notAFunction")])

\* the (indexes, transform) pairs handle is called with: the ones it
\* accepts and the ones it must refuse
GoodConfigs ==
    { [indexes |-> LogsIndexes, transform |-> ""],
      [indexes |-> LevelIndexes, transform |-> "addSource"] }
BadConfigs ==
    { [indexes |-> BadTypeIndexes, transform |-> ""],
      [indexes |-> BadValidatorIndexes, transform |-> ""],
      [indexes |-> BadValueIndexes, transform |-> ""],
      [indexes |-> LogsIndexes, transform |-> "notAFunction"] }
HandlerConfigs == GoodConfigs \cup BadConfigs

\* ---------------------------------------------------------- hook functions
\* A call of a hook gives [threw, value].
Returned(v) == [threw |-> FALSE, value |-> v]
Threw == [threw |-> TRUE, value |-> Undefined]

\* var LEVELS = {1: {name: 'low'}, 2: {name: 'high'}}
LEVELS == (1 :> "low") @@ (2 :> "high")

\* validator(value)
CallValidator(fn, value) ==
    CASE fn = "isLogType" ->
            \* ['info','warn','error'].indexOf(value) !== -1
            Returned(Bool(value.t = "string" /\ value.s \in LogTypes))
      [] fn = "isPositive" ->
            \* value > 0
            Returned(Bool(Greater(ToNumber(value), Num(0))))
      [] OTHER -> Threw

\* properties.value(value), at time now
CallValue(fn, value, now) ==
    CASE fn = "now" -> Returned(Num(now))
      [] fn = "levelName" ->
            \* LEVELS[value].name: a TypeError when LEVELS has no such level
            IF IsNumber(value) /\ value.n \in DOMAIN LEVELS
            THEN Returned(Str(LEVELS[value.n])) ELSE Threw
      [] OTHER -> Threw

\* transform(data)
CallTransform(fn, data) ==
    CASE fn = "addSource" ->
            \* data.source = typeof data.type.length === 'number' ? 'http' : 'other';
            \* return data: a TypeError when data has no type
            IF hasOwnProperty(data, "type")
            THEN Returned([k \in DOMAIN data \cup {"source"} |->
                     IF k # "source" THEN data[k]
                     ELSE IF data["type"].t = "string" THEN Str("http")
                     ELSE Str("other")])
            ELSE Threw
      [] OTHER -> Threw

\* ------------------------------------------------------------ add: checks
\* the text of a response body or of an error: the fixed text, the property
\* it names and the type it expects
Message(text, key, expected) == [text |-> text, key |-> key, expected |-> expected]
NoMessage == Message("", "", "")
InternalServerError == Message("Internal server error", "", "")
NotFound == Message("Not found", "", "")

\* new RequestError(message), and any other exception
RequestError(message) == [name |-> "RequestError", message |-> message]
OtherError == [name |-> "Error", message |-> NoMessage]

\* the value of one key: data[key] if data has it, else the default
\* valueOf, with no default put in the place of an absent property
valueOfWithoutDefault(properties, data, key) ==
    IF hasOwnProperty(data, key) THEN data[key] ELSE Undefined

valueOf(properties, data, key) ==
    IF hasOwnProperty(data, key) THEN data[key] ELSE properties.defaultValue

\* validate, with the validator never called
validateWithoutValidator(properties, data, key) ==
    LET value == valueOf(properties, data, key) IN
    IF properties.required /\ ~hasOwnProperty(data, key)
    THEN [threw |-> TRUE,
          error |-> RequestError(Message("Missing required property", key, ""))]
    ELSE IF properties.type # "" /\ typeof(value) # properties.type
    THEN [threw |-> TRUE,
          error |-> RequestError(Message("Invalid type for property", key, properties.type))]
    ELSE [threw |-> FALSE, error |-> OtherError]

\* validate, with the type checked before the required property
validateTypeFirst(properties, data, key) ==
    LET value == valueOf(properties, data, key) IN
    IF properties.type # "" /\ typeof(value) # properties.type
    THEN [threw |-> TRUE,
          error |-> RequestError(Message("Invalid type for property", key, properties.type))]
    ELSE IF properties.required /\ ~hasOwnProperty(data, key)
    THEN [threw |-> TRUE,
          error |-> RequestError(Message("Missing required property", key, ""))]
    ELSE IF properties.validator # "" /\ CallValidator(properties.validator, value).threw
    THEN [threw |-> TRUE, error |-> OtherError]
    ELSE IF properties.validator # ""
            /\ ~Truthy(CallValidator(properties.validator, value).value)
    THEN [threw |-> TRUE,
          error |-> RequestError(Message("Validation failed for property", key, ""))]
    ELSE [threw |-> FALSE, error |-> OtherError]

\* "validate data": the three checks of one key, in the order of the code;
\* gives the exception thrown, or "none"
validate(properties, data, key) ==
    LET value == valueOf(properties, data, key) IN
    IF properties.required /\ ~hasOwnProperty(data, key)
    THEN [threw |-> TRUE,
          error |-> RequestError(Message("Missing required property", key, ""))]
    ELSE IF properties.type # "" /\ typeof(value) # properties.type
    THEN [threw |-> TRUE,
          error |-> RequestError(Message("Invalid type for property", key, properties.type))]
    ELSE IF properties.validator # "" /\ CallValidator(properties.validator, value).threw
    THEN [threw |-> TRUE, error |-> OtherError]
    ELSE IF properties.validator # ""
            /\ ~Truthy(CallValidator(properties.validator, value).value)
    THEN [threw |-> TRUE,
          error |-> RequestError(Message("Validation failed for property", key, ""))]
    ELSE [threw |-> FALSE, error |-> OtherError]

\* "transform value": the value stored under a key that passed the checks
transformValue(properties, data, key, now) ==
    LET value == valueOf(properties, data, key) IN
    IF properties.value # "" THEN CallValue(properties.value, value, now)
    ELSE Returned(value)

\* forEachKey, with a key that fails its checks left out of the item instead
\* of ending the loop
RECURSIVE forEachKeySkipsInvalid(_, _, _, _, _, _)
forEachKeySkipsInvalid(keys, i, indexes, data, now, item) ==
    IF i > Len(keys) THEN [threw |-> FALSE, error |-> OtherError, item |-> item]
    ELSE LET key == keys[i]
             properties == indexes.props[key]
             checked == validate(properties, data, key)
             stored == transformValue(properties, data, key, now)
         IN  IF checked.threw \/ stored.threw
             THEN forEachKeySkipsInvalid(keys, i + 1, indexes, data, now, item)
             ELSE forEachKeySkipsInvalid(keys, i + 1, indexes, data, now,
                             [k \in DOMAIN item \cup {key} |->
                                 IF k = key THEN stored.value ELSE item[k]])

\* store[path].keys.forEach(...): the keys from position i on, item being the
\* object built so far; gives [threw, error, item]
RECURSIVE forEachKey(_, _, _, _, _, _)
forEachKey(keys, i, indexes, data, now, item) ==
    IF i > Len(keys) THEN [threw |-> FALSE, error |-> OtherError, item |-> item]
    ELSE LET key == keys[i]
             properties == indexes.props[key]
             checked == validate(properties, data, key)
             stored == transformValue(properties, data, key, now)
         IN  IF checked.threw
             THEN [threw |-> TRUE, error |-> checked.error, item |-> item]
             ELSE IF stored.threw
             THEN [threw |-> TRUE, error |-> OtherError, item |-> item]
             ELSE forEachKey(keys, i + 1, indexes, data, now,
                             [k \in DOMAIN item \cup {key} |->
                                 IF k = key THEN stored.value ELSE item[k]])

\* the synchronous part of add on a registered path: transform, the loop over
\* the keys, the timestamp and the payload; gives [threw, error, item]
buildItem(handler, data, now) ==
    LET transformed == IF handler.transform # ""
                       THEN CallTransform(handler.transform, data)
                       ELSE Returned(data)
    IN  IF transformed.threw
        THEN [threw |-> TRUE, error |-> OtherError, item |-> EmptyObject,
              data |-> data]
        ELSE LET built == forEachKey(handler.keys, 1, handler.indexes,
                                     transformed.value, now, EmptyObject)
             IN  [threw |-> built.threw, error |-> built.error,
                  item |-> built.item, data |-> transformed.value]

\* ------------------------------------------------------------- buildQuery
\* parseTime(time): a number or numeric string is an epoch, a date string is
\* parsed, anything else gives null
parseTime(time) ==
    IF ~isNaN(time) THEN parseInt(time)
    ELSE IF time.t = "string" /\ time.s \in DOMAIN DateText THEN Num(DateText[time.s])
    ELSE Null

\* the value buildQuery puts in the predicate for one filter key of a declared
\* index, by the declared type; [set, value]: set is FALSE when the key is
\* left out of the predicate
coerce(type, value) ==
    CASE type = "boolean" ->
            [set |-> TRUE,
             value |-> IF value = Str("true") THEN Bool(TRUE)
                       ELSE IF value = Str("false") THEN Bool(FALSE)
                       ELSE Bool(Truthy(value))]
      [] type = "number" ->
            IF ~isNaN(value)
            THEN [set |-> TRUE,
                  value |-> IF HasDot(value) THEN parseFloat(value) ELSE parseInt(value)]
            ELSE [set |-> FALSE, value |-> Undefined]
      [] OTHER -> [set |-> TRUE, value |-> value]

\* the keys of the filter that reach the predicate
queryKeys(handler, filter) ==
    {key \in DOMAIN filter :
        /\ hasOwnProperty(handler.indexes.props, key)
        /\ coerce(handler.indexes.props[key].type, filter[key]).set}

\* the __timestamp entry of the predicate: both options are parsed into the
\* variable startTime, endTime is never assigned
timestampQuery(options) ==
    LET afterStart == IF hasOwnProperty(options, "startTime")
                      THEN parseTime(options["startTime"]) ELSE Undefined
        startTime == IF hasOwnProperty(options, "endTime")
                     THEN parseTime(options["endTime"]) ELSE afterStart
        endTime == Undefined
    IN  IF typeof(startTime) # "undefined" /\ typeof(endTime) # "undefined"
        THEN [k \in {"$gte", "$lte"} |-> IF k = "$gte" THEN startTime ELSE endTime]
        ELSE IF typeof(startTime) # "undefined"
        THEN [k \in {"$gte"} |-> startTime]
        ELSE IF typeof(endTime) # "undefined"
        THEN [k \in {"$lte"} |-> endTime]
        ELSE EmptyObject

\* buildQuery(path, filter, options), handler being store[path]
buildQuery(handler, filter, options) ==
    [fields |-> [key \in queryKeys(handler, filter) |->
                    coerce(handler.indexes.props[key].type, filter[key]).value],
     timestamp |-> timestampQuery(options)]

\* ------------------------------------------------------------------ state
VARIABLES
    globalConfig,   \* require('./config'): defaultLimit, maxLimit
    database,       \* the promise MongoClient.connect returned
    store,          \* path -> handler details, as handle stored them
    collections,    \* the storage engine: path -> records, in insertion order
    inserts,        \* insertOne requests the storage engine has not answered
    calls,          \* caller -> the call of add / query / query2 it made last
    clock,          \* Date.now()
    indexRequests,  \* the createIndex calls handle queued on the collections
    acknowledged,   \* history: the inserts whose add resolved with code 200
    failedInserts,  \* history: the inserts the storage engine failed
    thrown          \* history: whether the last call of handle threw

vars == <<globalConfig, database, store, collections, inserts, calls, clock,
          indexRequests, acknowledged, failedInserts, thrown>>

Paths == {"v1/logs", "v1/other"}

\* one caller, which awaits the result of a call before it makes the next
Callers == {1}

\* a record of a collection: the index values, __timestamp and __data, and
\* (history) the index configuration add checked it against
Record(item, timestamp, data, indexes) ==
    [item |-> item, timestamp |-> timestamp, data |-> data, indexes |-> indexes]

\* the records an earlier run of the process left in v1/logs, written under
\* the v1/logs handler: {type: ..., message: i}
SeedTypes == <<"info", "warn", "error">>
SeedRecord(i) ==
    Record([k \in {"type"} |-> Str(SeedTypes[((i - 1) % 3) + 1])], i,
           [k \in {"type", "message"} |->
               IF k = "type" THEN Str(SeedTypes[((i - 1) % 3) + 1]) ELSE Num(i)],
           LogsIndexes)

\* the result object of add and query
Result(code, contentType, content, cursor, limit, position, recordsCount) ==
    [code |-> code, contentType |-> contentType, content |-> content,
     cursor |-> cursor, limit |-> limit, position |-> position,
     recordsCount |-> recordsCount]

NoResult == Result(0, "text/plain", NoMessage, FALSE, Undefined, Null, 0)

NoQuery == [fields |-> EmptyObject, timestamp |-> EmptyObject]
NoItem == Record(EmptyObject, 0, EmptyObject, Indexes(<<>>, EmptyObject))

NoHandler == [indexes |-> Indexes(<<>>, EmptyObject), keys |-> <<>>, transform |-> ""]

\* a call: the function and its arguments, where its promise chain stands
\* (pc), the result object, how often resolve ran, the storage operations it
\* made, the item add built, the predicate and cursor settings of a query,
\* what the cursor streamed, whether the stream failed.  History, for the
\* properties: whether the path was registered when the call was made and
\* with which handler (for a query: the handler buildQuery read), whether a storage failure reached the catch, and the
\* add calls acknowledged (and of those, the ones the collection held) when
\* the call was made, and the windows of the pages a client visited before
\* it followed a next link to this call (trail)
IdleCall ==
    [fn |-> "", pc |-> "idle", path |-> "", data |-> EmptyObject,
     filter |-> EmptyObject, options |-> EmptyObject,
     result |-> NoResult, resolves |-> 0, ops |-> {},
     item |-> NoItem, query |-> NoQuery, skip |-> Undefined,
     limit |-> Undefined, tsProperty |-> "", values |-> <<>>,
     streamError |-> FALSE,
     known |-> FALSE, handler |-> NoHandler, storageFailed |-> FALSE,
     acked |-> {}, written |-> {},
     served |-> FALSE, status |-> 0, emitted |-> <<>>,
     trail |-> <<>>]

Configs ==
    {c \in [defaultLimit : 1..MaxConfigLimit, maxLimit : 1..MaxConfigLimit] :
        c.defaultLimit <= c.maxLimit}

Init ==
    /\ globalConfig \in Configs
    /\ database = "pending"
    /\ store = EmptyObject
    /\ \E n \in 0..MaxSeed :
          collections = [p \in Paths |->
              IF p = "v1/logs" THEN [i \in 1..n |-> SeedRecord(i)] ELSE <<>>]
    /\ inserts = {}
    /\ calls = [c \in Callers |-> IdleCall]
    /\ clock = MaxSeed + 1
    /\ indexRequests = {}
    /\ acknowledged = {}
    /\ failedInserts = {}
    /\ thrown = FALSE

\* MongoClient.connect(globalConfig.mongoConnect) settles
connect ==
    /\ database = "pending"
    /\ database' \in {"connected", "failed"}
    /\ UNCHANGED <<thrown, globalConfig, store, collections, inserts, calls, clock,
                   indexRequests, acknowledged, failedInserts>>

\* ----------------------------------------------------------------- handle
\* handleThrows, with only the type of a rule checked
handleThrowsOnTypeOnly(indexes, transform) ==
    \E key \in DOMAIN indexes.props :
        LET item == indexes.props[key] IN
        item.type # "" /\ item.type \notin {"string", "number", "boolean"}

\* "validate configuration": whether handle throws for these arguments
handleThrows(indexes, transform) ==
    \/ \E key \in DOMAIN indexes.props :
          LET item == indexes.props[key] IN
          \/ item.type # "" /\ item.type \notin {"string", "number", "boolean"}
          \/ item.validator = "notAFunction"
          \/ item.value = "notAFunction"
    \/ transform = "notAFunction"

\* the handler details handle stores for a path
handlerDetails(indexes, transform) ==
    [indexes |-> indexes, keys |-> ObjectKeys(indexes), transform |-> transform]

\* exports.handle(path, indexes, transform)
handle(path, indexes, transform) ==
    /\ IF handleThrows(indexes, transform)
       THEN UNCHANGED <<store, indexRequests>>
       ELSE /\ store' = [p \in DOMAIN store \cup {path} |->
                            IF p = path THEN handlerDetails(indexes, transform)
                            ELSE store[p]]
            /\ indexRequests' = indexRequests \cup
                   {<<path, key>> : key \in DOMAIN indexes.props}
    /\ thrown' = handleThrows(indexes, transform)
    /\ UNCHANGED <<globalConfig, database, collections, inserts, calls, clock,
                   acknowledged, failedInserts>>

\* -------------------------------------------------------------------- add
\* respond(code, message): fills the result and resolves the promise
respond(call, code, message) ==
    [call EXCEPT !.pc = "done",
                 !.result = [call.result EXCEPT !.code = code, !.content = message],
                 !.resolves = call.resolves + 1]

\* catch, with the handler logging the error and leaving the promise alone
catchOnlyLogs(call) == [call EXCEPT !.storageFailed = TRUE]

\* .catch(function(err) { respond(500, 'Internal server error') })
catch(call) ==
    respond([call EXCEPT !.storageFailed = TRUE], 500, InternalServerError)

\* the call a caller starts: the arguments and a fresh result object
newCall(fn, path, data, filter, options, limit) ==
    [IdleCall EXCEPT !.fn = fn, !.pc = "start", !.path = path, !.data = data,
                     !.filter = filter, !.options = options,
                     !.result = [NoResult EXCEPT !.limit = limit],
                     !.known = hasOwnProperty(store, path),
                     !.handler = IF hasOwnProperty(store, path) THEN store[path]
                                 ELSE NoHandler,
                     !.acked = acknowledged,
                     !.written = {a \in acknowledged :
                                    \E i \in 1..Len(collections[a.path]) :
                                        collections[a.path][i] = a.item}]

\* addInsert, with the item kept in a variable of the module that every
\* call writes: the callback inserts the item that was built last
addInsertSharedItem(c) ==
    /\ calls[c].fn = "add"
    /\ calls[c].pc = "collection"
    /\ database = "connected"
    /\ LET building == {d \in DOMAIN calls : calls[d].fn = "add" /\ calls[d].pc = "collection"}
           last == CHOOSE d \in building :
                       \A e \in building : calls[e].item.timestamp <= calls[d].item.timestamp
       IN  /\ inserts' = inserts \cup {[path |-> calls[c].path, item |-> calls[last].item]}
           /\ acknowledged' = acknowledged \cup
                 {[path |-> calls[c].path, item |-> calls[last].item]}
    /\ calls' = [calls EXCEPT ![c] =
          respond([@ EXCEPT !.ops = @ \cup {"insertOne"}], 200, NoMessage)]
    /\ UNCHANGED <<thrown, globalConfig, database, store, collections, clock, indexRequests,
                   failedInserts>>

\* addCall, with a RequestError answered with code 400
addCallBadRequest(path, data) ==
    LET call == newCall("add", path, data, EmptyObject, EmptyObject, Undefined) IN
    IF ~hasOwnProperty(store, path) THEN respond(call, 404, NotFound)
    ELSE LET built == buildItem(store[path], data, clock) IN
         IF built.threw
         THEN IF built.error.name = "RequestError"
              THEN respond(call, 400, built.error.message)
              ELSE respond(call, 500, InternalServerError)
         ELSE [call EXCEPT !.pc = "collection",
                           !.item = Record(built.item, clock, built.data,
                                           store[path].indexes)]

\* exports.add(path, data), up to the first asynchronous step: 404 for an
\* unknown path, 500 with the message of a RequestError (or the generic text) when
\* the transform or the loop over the keys throws, else the item is built and
\* the call waits for store[path].collection
addCall(path, data) ==
    LET call == newCall("add", path, data, EmptyObject, EmptyObject, Undefined) IN
    IF ~hasOwnProperty(store, path) THEN respond(call, 404, NotFound)
    ELSE LET built == buildItem(store[path], data, clock) IN
         IF built.threw
         THEN respond(call, 500,
                      IF built.error.name = "RequestError" THEN built.error.message
                      ELSE InternalServerError)
         ELSE [call EXCEPT !.pc = "collection",
                           !.item = Record(built.item, clock, built.data,
                                           store[path].indexes)]

add(c, path, data) ==
    /\ calls[c].pc \in {"idle", "done"}
    /\ clock < MaxSeed + 1 + MaxAdds \/ addCall(path, data).pc = "done"
    /\ calls' = [calls EXCEPT ![c] = addCall(path, data)]
    /\ clock' = IF addCall(path, data).pc = "collection" THEN clock + 1 ELSE clock
    /\ UNCHANGED <<thrown, globalConfig, database, store, collections, inserts,
                   indexRequests, acknowledged, failedInserts>>

\* the callbacks add chains on store[path].collection, run once the database
\* promise has settled: insertOne is called and its promise dropped, then
\* respond(200, ''); a rejected collection or a throw of insertOne goes to
\* the catch and respond(500, 'Internal server error')
addInsert(c) ==
    /\ calls[c].fn = "add"
    /\ calls[c].pc = "collection"
    /\ database # "pending"
    /\ \/ /\ database = "failed"
          /\ calls' = [calls EXCEPT ![c] = catch(@)]
          /\ UNCHANGED <<inserts, acknowledged>>
       \/ /\ database = "connected"
          /\ calls' = [calls EXCEPT ![c] = catch([@ EXCEPT !.ops = @ \cup {"insertOne"}])]
          /\ UNCHANGED <<inserts, acknowledged>>
       \/ /\ database = "connected"
          /\ inserts' = inserts \cup {[path |-> calls[c].path, item |-> calls[c].item]}
          /\ calls' = [calls EXCEPT ![c] =
                respond([@ EXCEPT !.ops = @ \cup {"insertOne"}], 200, NoMessage)]
          /\ acknowledged' = acknowledged \cup
                {[path |-> calls[c].path, item |-> calls[c].item]}
    /\ UNCHANGED <<thrown, globalConfig, database, store, collections, clock, indexRequests,
                   failedInserts>>

\* the storage engine answers an insertOne: the record is appended to the
\* collection, or the write fails and the dropped promise rejects unseen
insertOne(i) ==
    /\ i \in inserts
    /\ inserts' = inserts \ {i}
    /\ \/ /\ collections' = [collections EXCEPT ![i.path] = Append(@, i.item)]
          /\ UNCHANGED failedInserts
       \/ /\ failedInserts' = failedInserts \cup {i}
          /\ UNCHANGED collections
    /\ UNCHANGED <<thrown, globalConfig, database, store, calls, clock, indexRequests,
                   acknowledged>>

\* ------------------------------------------------------------------ query
\* the storage engine: whether a record satisfies a predicate.  A field of
\* the predicate is an equality on the index value; $gte / $lte compare the
\* timestamp with a number, and a bound that is no number (null, NaN) is
\* satisfied by no record
matches(record, query) ==
    /\ \A key \in DOMAIN query.fields :
          /\ hasOwnProperty(record.item, key)
          /\ record.item[key] = query.fields[key]
    /\ \A op \in DOMAIN query.timestamp :
          /\ IsNumber(query.timestamp[op])
          /\ op = "$gte" => record.timestamp >= query.timestamp[op].n
          /\ op = "$lte" => record.timestamp <= query.timestamp[op].n

\* collection.find(query): the matching records, in insertion order
find(collection, query) ==
    LET test(record) == matches(record, query) IN SelectSeq(collection, test)

\* "limit the number of results": result.limit of query2
limitOf(fn, options, config) ==
    IF fn = "query" THEN Num(config.defaultLimit)
    ELSE LET asked == IF hasOwnProperty(options, "limit") /\ ~isNaN(options["limit"])
                      THEN parseInt(options["limit"])
                      ELSE Num(config.defaultLimit)
         IN  IF Greater(asked, Num(config.maxLimit)) THEN Num(config.maxLimit)
             ELSE asked

\* "determine the skip value": start, which is result.position
startOf(options, count, limit) ==
    IF hasOwnProperty(options, "position") /\ ~isNaN(options["position"])
    THEN parseInt(options["position"])
    ELSE Minus(Num(count), limit)

\* "if the current position falls out of bounds"
outOfBounds(position, count) ==
    Less(position, Num(1)) \/ Greater(position, Num(count))

\* "determine whether to return the timestamp": tsProperty, "" when unset
tsPropertyOf(options) ==
    IF ~hasOwnProperty(options, "timestamp") THEN ""
    ELSE IF Truthy(options["timestamp"]) THEN options["timestamp"].s
    ELSE "timestamp"

\* queryCall, with an unknown path answered like an internal error
queryCallUnknownIs500(fn, path, filter, options) ==
    LET call == newCall(fn, path, EmptyObject, filter, options,
                        Num(globalConfig.defaultLimit))
    IN  IF ~hasOwnProperty(store, path) THEN respond(call, 500, InternalServerError)
        ELSE [call EXCEPT !.pc = "collection"]

\* exports.query / exports.query2 (path, filter, options), up to the first
\* asynchronous step
queryCall(fn, path, filter, options) ==
    LET call == newCall(fn, path, EmptyObject, filter, options,
                        Num(globalConfig.defaultLimit))
    IN  IF ~hasOwnProperty(store, path) THEN respond(call, 404, NotFound)
        ELSE [call EXCEPT !.pc = "collection"]

query(c, fn, path, filter, options) ==
    /\ calls[c].pc \in {"idle", "done"}
    /\ calls' = [calls EXCEPT ![c] = queryCall(fn, path, filter, options)]
    /\ UNCHANGED <<thrown, globalConfig, database, store, collections, inserts, clock,
                   indexRequests, acknowledged, failedInserts>>

\* the first callback on store[path].collection: buildQuery, find, and the
\* count request; a rejected collection goes to the catch
queryFind(c) ==
    /\ calls[c].fn \in {"query", "query2"}
    /\ calls[c].pc = "collection"
    /\ database # "pending"
    /\ \/ /\ database = "failed"
          /\ calls' = [calls EXCEPT ![c] = catch(@)]
       \/ /\ database = "connected"
          /\ calls' = [calls EXCEPT ![c] =
                [@ EXCEPT !.pc = "count",
                          !.handler = store[calls[c].path],
                          !.query = buildQuery(store[calls[c].path], calls[c].filter,
                                               calls[c].options),
                          !.ops = @ \cup {"find", "count"}]]
    /\ UNCHANGED <<thrown, globalConfig, database, store, collections, inserts, clock,
                   indexRequests, acknowledged, failedInserts>>

\* the second callback, with the count the storage engine gave: the window,
\* the empty response when the position is out of bounds, else the cursor is
\* skipped (and limited, in query2) and its stream becomes the content
afterCount(call, count) ==
    LET limit == limitOf(call.fn, call.options, globalConfig)
        start == startOf(call.options, count, limit)
        counted == [call EXCEPT !.result.recordsCount = count,
                                !.result.limit = limit,
                                !.result.position = start]
    IN  IF outOfBounds(start, count)
        THEN respond([counted EXCEPT !.result.contentType = "application/json"],
                     200, NoMessage)
        ELSE [counted EXCEPT
                 !.pc = "stream",
                 !.tsProperty = tsPropertyOf(call.options),
                 !.skip = Minus(start, Num(1)),
                 !.limit = IF call.fn = "query2" THEN limit ELSE Undefined,
                 !.ops = @ \cup (IF call.fn = "query2"
                                 THEN {"skip", "limit", "stream"}
                                 ELSE {"skip", "stream"}),
                 !.result.code = 200,
                 !.result.contentType = "application/json",
                 !.result.cursor = TRUE,
                 !.resolves = @ + 1]

\* cursor.count() settles: the count of the matching records, or a failure
\* that goes to the catch
queryCount(c) ==
    /\ calls[c].pc = "count"
    /\ \/ calls' = [calls EXCEPT ![c] = catch(@)]
       \/ calls' = [calls EXCEPT ![c] =
             afterCount(@, Len(find(collections[@.path], @.query)))]
    /\ UNCHANGED <<thrown, globalConfig, database, store, collections, inserts, clock,
                   indexRequests, acknowledged, failedInserts>>

\* the stream's transform: the payload, with the timestamp under tsProperty
streamTransform(record, tsProperty) ==
    IF tsProperty = "" THEN record.data
    ELSE [k \in DOMAIN record.data \cup {tsProperty} |->
             IF k = tsProperty THEN Num(record.timestamp) ELSE record.data[k]]

\* the storage engine: what a cursor with these settings yields.  A skip or
\* limit that is NaN reaches an engine that reads it as 0 (or fails the
\* cursor, see stream); limit 0 is no limit, a negative limit is its size
cursorRecords(matching, skip, limit) ==
    LET s == IF IsNumber(skip) /\ skip.n > 0 THEN skip.n ELSE 0
        rest == SubSeq(matching, s + 1, Len(matching))
        l == IF ~IsNumber(limit) \/ limit.n = 0 THEN Len(rest)
             ELSE IF limit.n < 0 THEN 0 - limit.n ELSE limit.n
    IN  SubSeq(rest, 1, IF l < Len(rest) THEN l ELSE Len(rest))

\* the consumer reads result.content to its end: the cursor runs on the
\* collection as it is now, or fails
stream(c) ==
    /\ calls[c].pc = "stream"
    /\ \/ calls' = [calls EXCEPT ![c] = [@ EXCEPT !.pc = "done", !.streamError = TRUE]]
       \/ calls' = [calls EXCEPT ![c] =
             [@ EXCEPT !.pc = "done",
                       !.values =
                           LET records == cursorRecords(
                                   find(collections[calls[c].path], calls[c].query),
                                   calls[c].skip, calls[c].limit)
                           IN  [i \in 1..Len(records) |->
                                   streamTransform(records[i], calls[c].tsProperty)]]]
    /\ UNCHANGED <<thrown, globalConfig, database, store, collections, inserts, clock,
                   indexRequests, acknowledged, failedInserts>>

\* ------------------------------------------------------------- HTTP layer
\* '' + v: the text a value has inside a pushed string
String(v) ==
    CASE v.t = "string" -> v.s
      [] v.t = "number" -> IF v.s # "" THEN v.s
                           ELSE CHOOSE text \in DOMAIN IntText : IntText[text] = v.n
      [] v.t = "undefined" -> "undefined"
      [] OTHER -> v.s

\* req.query of the request that analyzeQueryParameters splits into this
\* filter and these options: an option travels under '~' + its name
requestQuery(filter, options) ==
    [k \in DOMAIN filter \cup {"~" \o o : o \in DOMAIN options} |->
        IF k \in DOMAIN filter THEN filter[k]
        ELSE options[CHOOSE o \in DOMAIN options : k = "~" \o o]]

\* buildQueryString(query, config): the key=value pairs of
\* Object.assign({}, query, config), as a map from key to the text of its value
buildQueryString(reqQuery, config) ==
    [k \in DOMAIN reqQuery \cup DOMAIN config |->
        String(IF k \in DOMAIN config THEN config[k] ELSE reqQuery[k])]

\* one hateoas link: the address and the query string behind it
Link(href, parameters) == [href |-> href, parameters |-> parameters]

\* prevConfig, without the clamp at the first record
prevConfigUnclamped(result) ==
    [k \in {"~position"} |-> Minus(result.position, result.limit)]

\* the '~position' (and '~limit') the prev link carries
prevConfig(result) ==
    LET position == Minus(result.position, result.limit) IN
    IF Less(position, Num(1))
    THEN [k \in {"~position", "~limit"} |->
             IF k = "~position" THEN Num(1) ELSE Minus(result.position, Num(1))]
    ELSE [k \in {"~position"} |-> position]

\* what the stream carries: the header pushQueryStreamStart writes, a value,
\* a comma, the two closing brackets, the end of the stream, or the body of a
\* response that is no query result
Pushed(kind, links, metadata, value) ==
    [kind |-> kind, links |-> links, metadata |-> metadata, value |-> value]

Plain(kind) == Pushed(kind, EmptyObject, EmptyObject, EmptyObject)

\* pushQueryStreamStart(context, result, serviceUrl, query): '{', the links,
\* the metadata and '"values":['
pushQueryStreamStart(result, serviceUrl, reqQuery) ==
    LET url == serviceUrl \o "/"
        hasNext == Greater(Num(result.recordsCount), Plus(result.position, result.limit))
        hasPrev == Greater(result.position, Num(1))
        rels == {"latest", "self"} \cup (IF hasNext THEN {"next"} ELSE {})
                                   \cup (IF hasPrev THEN {"prev"} ELSE {})
        next == [k \in {"~position"} |-> Plus(result.position, result.limit)]
        self == [k \in {"~position"} |-> result.position]
    IN  Pushed("start",
               [rel \in rels |->
                   CASE rel = "latest" -> Link(serviceUrl, EmptyObject)
                     [] rel = "next" -> Link(url, buildQueryString(reqQuery, next))
                     [] rel = "prev" -> Link(url, buildQueryString(reqQuery, prevConfig(result)))
                     [] rel = "self" -> Link(url, buildQueryString(reqQuery, self))],
               [page_size |-> String(result.limit),
                position |-> String(result.position),
                total_records |-> String(Num(result.recordsCount))],
               EmptyObject)

\* pushQueryStreamEnd(context): ']', '}' and the end of the stream
pushQueryStreamEnd == <<Plain("]"), Plain("}"), Plain("end")>>

\* through2, with the comma pushed after every chunk
RECURSIVE through2CommaAfter(_, _, _, _)
through2CommaAfter(chunks, i, first, start) ==
    IF i > Len(chunks)
    THEN (IF first THEN <<start>> ELSE <<>>) \o pushQueryStreamEnd
    ELSE (IF first THEN <<start>> ELSE <<>>)
             \o <<Pushed("value", EmptyObject, EmptyObject, chunks[i]), Plain(",")>>
             \o through2CommaAfter(chunks, i + 1, FALSE, start)

\* the through2 transform on the chunks from position i on: the header
\* before the first chunk, a comma before every other one, the chunk as
\* JSON; then the flush: the header if no chunk came, and the end
RECURSIVE through2(_, _, _, _)
through2(chunks, i, first, start) ==
    IF i > Len(chunks)
    THEN (IF first THEN <<start>> ELSE <<>>) \o pushQueryStreamEnd
    ELSE <<IF first THEN start ELSE Plain(",")>>
             \o <<Pushed("value", EmptyObject, EmptyObject, chunks[i])>>
             \o through2(chunks, i + 1, FALSE, start)

\* what res receives for a result: the content as it is when the code is
\* not 200, else the content through the transform; a content that fails
\* ends nothing downstream
piped(call) ==
    IF call.result.code # 200
    THEN <<Pushed("text", EmptyObject, EmptyObject, call.result.content), Plain("end")>>
    ELSE IF call.streamError THEN <<>>
    ELSE through2(call.values, 1, TRUE,
                  pushQueryStreamStart(call.result, call.path,
                                       requestQuery(call.filter, call.options)))

\* app.get('*'), case 'query': the callback on command.query(...) sets the
\* status and the content type and pipes the content to res
serve(c) ==
    /\ calls[c].fn = "query"
    /\ calls[c].pc = "done"
    /\ ~calls[c].served
    /\ calls' = [calls EXCEPT ![c] =
          [@ EXCEPT !.served = TRUE,
                    !.status = calls[c].result.code,
                    !.emitted = piped(calls[c])]]
    /\ UNCHANGED <<thrown, globalConfig, database, store, collections, inserts, clock,
                   indexRequests, acknowledged, failedInserts>>

\* the names an option can have in a request
OptionNames == {"position", "limit", "timestamp", "startTime", "endTime"}

\* analyzeQueryParameters(query): the keys that start with '~' are options,
\* named by the rest of the key, the other keys are the filter
analyzeQueryParameters(reqQuery) ==
    [filter |-> [k \in {k \in DOMAIN reqQuery :
                            \A o \in OptionNames : k # "~" \o o} |-> reqQuery[k]],
     options |-> [o \in {o \in OptionNames : ("~" \o o) \in DOMAIN reqQuery} |->
                     reqQuery["~" \o o]]]

\* the window a result reports in its metadata: position and page_size
Window(call) == [position |-> call.result.position, size |-> call.result.limit]

\* a client follows the next link of the response it received: a GET of the
\* query of the path with the parameters of the link, every value a text,
\* which app.get('*') splits and hands to command.query
followNext(c) ==
    /\ calls[c].served
    /\ calls[c].status = 200
    /\ calls[c].emitted # <<>>
    /\ "next" \in DOMAIN calls[c].emitted[1].links
    /\ LET parameters == calls[c].emitted[1].links["next"].parameters
           reqQuery == [k \in DOMAIN parameters |-> Str(parameters[k])]
           params == analyzeQueryParameters(reqQuery)
       IN  calls' = [calls EXCEPT ![c] =
               [queryCall("query", calls[c].path, params.filter, params.options)
                   EXCEPT !.trail = Append(calls[c].trail, Window(calls[c]))]]
    /\ UNCHANGED <<thrown, globalConfig, database, store, collections, inserts, clock,
                   indexRequests, acknowledged, failedInserts>>

\* ----------------------------------------------------------------- inputs
\* {k1: v1}, {k1: v1, k2: v2}
Obj1(k1, v1) == [k \in {k1} |-> v1]
Obj2(k1, v1, k2, v2) == [k \in {k1, k2} |-> IF k = k1 THEN v1 ELSE v2]

\* the bodies posted to add
AddData ==
    { EmptyObject,
      Obj1("type", Str("info")),
      Obj1("type", Str("debug")),
      Obj2("type", Str("warn"), "level", Num(2)),
      Obj2("type", Num(7), "level", Str("hi")),
      Obj2("type", Str("info"), "level", Str("hi")),
      Obj2("type", Str("info"), "level", Num(0)),
      Obj2("type", Str("error"), "level", Num(3)) }

\* the (filter, options) pairs of a query
Asked(filter, options) == [filter |-> filter, options |-> options]

QueryInputs ==
    { Asked(EmptyObject, EmptyObject),
      Asked(EmptyObject, Obj1("position", Str("1"))),
      Asked(EmptyObject, Obj1("position", Str("2"))),
      Asked(EmptyObject, Obj1("position", Str("5"))),
      Asked(EmptyObject, Obj1("position", Str("0"))),
      Asked(EmptyObject, Obj1("position", Str(""))),
      Asked(EmptyObject, Obj1("position", Str("abc"))),
      Asked(EmptyObject, Obj2("position", Str("2"), "limit", Str("1"))),
      Asked(EmptyObject, Obj1("limit", Str("3"))),
      Asked(EmptyObject, Obj1("timestamp", Str(""))),
      Asked(EmptyObject, Obj1("startTime", Str("2"))),
      Asked(EmptyObject, Obj1("endTime", Str("2"))),
      Asked(EmptyObject, Obj2("startTime", Str("1"), "endTime", Str("2"))),
      Asked(EmptyObject, Obj1("startTime", Str("abc"))),
      Asked(Obj1("level", Str("2")), EmptyObject),
      Asked(Obj1("level", Str("")), EmptyObject),
      Asked(Obj1("level", Str("abc")), EmptyObject),
      Asked(Obj1("type", Str("info")), EmptyObject),
      Asked(Obj1("type", Str("info")), Obj1("position", Str("1"))),
      Asked(Obj1("type", Str("info")), Obj1("position", Str("2"))),
      Asked(Obj2("type", Str("warn"), "user", Str("1")), EmptyObject),
      Asked(Obj2("type", Str("warn"), "user", Str("1")), Obj1("position", Str("1"))) }

\* the path the process registers (command.handle('v1/logs', ...))
HandlePaths == {"v1/logs"}

\* the inputs of the specification of the whole store
CoreConfigs == {[indexes |-> LogsIndexes, transform |-> ""]} \cup BadConfigs
CoreData == {EmptyObject, Obj1("type", Str("info")), Obj1("type", Str("debug"))}
CoreQueries ==
    { Asked(EmptyObject, EmptyObject),
      Asked(EmptyObject, Obj1("position", Str("1"))),
      Asked(Obj1("type", Str("info")), EmptyObject),
      Asked(Obj1("type", Str("info")), Obj1("position", Str("1"))) }

\* the steps of the registry and the database connection
Setup(configs) ==
    \/ connect
    \/ \E path \in HandlePaths, config \in configs :
          handle(path, config.indexes, config.transform)

\* the steps of add with bodies from data
Adds(data) ==
    \/ \E c \in DOMAIN calls, path \in Paths, d \in data : add(c, path, d)
    \/ \E c \in DOMAIN calls : addInsert(c)
    \/ \E i \in inserts : insertOne(i)

\* the steps of query and query2 with inputs from asked
Queries(asked) ==
    \/ \E c \in DOMAIN calls, fn \in {"query", "query2"}, path \in Paths, q \in asked :
          query(c, fn, path, q.filter, q.options)
    \/ \E c \in DOMAIN calls : queryFind(c)
    \/ \E c \in DOMAIN calls : queryCount(c)
    \/ \E c \in DOMAIN calls : stream(c)
    \/ \E c \in DOMAIN calls : serve(c)

\* the whole store: registration, add and query by one caller
Next == Setup(CoreConfigs) \/ Adds(CoreData) \/ Queries(CoreQueries)
Spec == Init /\ [][Next]_vars

\* add alone, with every configuration handle accepts and every body; add
\* reads neither limit of the configuration file, which is the least one here
AddInit == Init /\ globalConfig = [defaultLimit |-> 1, maxLimit |-> 1]
AddNext == Setup(GoodConfigs) \/ Adds(AddData)
AddSpec == AddInit /\ [][AddNext]_vars

\* query and query2 alone, on the records an earlier run left
QueryNext == Setup(GoodConfigs) \/ Queries(QueryInputs)
QuerySpec == Init /\ [][QueryNext]_vars

\* add on optional fields: the configurations with defaults, and bodies
\* that leave fields out
DefaultConfigs ==
    { [indexes |-> OptionalIndexes, transform |-> ""],
      [indexes |-> LevelIndexes, transform |-> "addSource"] }
DefaultData ==
    { EmptyObject,
      Obj1("type", Str("info")),
      Obj1("level", Num(2)),
      Obj2("type", Str("warn"), "level", Num(2)) }
DefaultNext == Setup(DefaultConfigs) \/ Adds(DefaultData)
DefaultSpec == AddInit /\ [][DefaultNext]_vars

\* a client that reads a collection page by page: queries from position 1,
\* with and without a filter, and the next links followed; no add runs
TraverseConfigs == {[indexes |-> LogsIndexes, transform |-> ""]}
TraverseQueries ==
    { Asked(EmptyObject, Obj1("position", Str("1"))),
      Asked(Obj1("type", Str("info")), Obj1("position", Str("1"))) }
TraverseNext ==
    \/ Setup(TraverseConfigs)
    \/ Queries(TraverseQueries)
    \/ \E c \in DOMAIN calls : followNext(c)
TraverseSpec == Init /\ [][TraverseNext]_vars

\* two callers whose calls run at the same time, on two registered paths:
\* the process of Init with a second caller, empty collections, the least
\* limits, and the clock early enough for two adds to build an item
ConcurrentCallers == {1, 2}
ConcurrentInit ==
    /\ globalConfig = [defaultLimit |-> 1, maxLimit |-> 1]
    /\ database = "pending"
    /\ store = EmptyObject
    /\ collections = [p \in Paths |-> <<>>]
    /\ inserts = {}
    /\ calls = [c \in ConcurrentCallers |-> IdleCall]
    /\ clock = MaxSeed + MaxAdds - 1
    /\ indexRequests = {}
    /\ acknowledged = {}
    /\ failedInserts = {}
    /\ thrown = FALSE
\* each caller sends a body of its own
ConcurrentData == <<Obj1("type", Str("info")), Obj1("type", Str("warn"))>>
ConcurrentQueries == {Asked(Obj1("type", Str("info")), Obj1("position", Str("1")))}
ConcurrentNext ==
    \/ connect
    \/ \E path \in Paths, config \in TraverseConfigs :
          handle(path, config.indexes, config.transform)
    \/ \E c \in DOMAIN calls, path \in Paths : add(c, path, ConcurrentData[c])
    \/ \E c \in DOMAIN calls : addInsert(c)
    \/ \E i \in inserts : insertOne(i)
    \/ \E c \in DOMAIN calls, path \in Paths, q \in ConcurrentQueries :
          query(c, "query", path, q.filter, q.options)
    \/ \E c \in DOMAIN calls : queryFind(c)
    \/ \E c \in DOMAIN calls : queryCount(c)
    \/ \E c \in DOMAIN calls : stream(c)
ConcurrentSpec == ConcurrentInit /\ [][ConcurrentNext]_vars

\* the promise library runs every callback whose promise has settled, the
\* connection attempt and every count request end
LiveSpec ==
    /\ Spec
    /\ WF_vars(connect)
    /\ \A c \in Callers :
          WF_vars(addInsert(c)) /\ WF_vars(queryFind(c)) /\ WF_vars(queryCount(c))

\* ================================================================ claims
Pending(c) == calls[c].pc \in {"collection", "count"}
Resolved(c) == calls[c].pc \in {"stream", "done"}
IsQuery(c) == calls[c].fn \in {"query", "query2"}
IsAdd(c) == calls[c].fn = "add"

\* C1 (state part): resolve runs at most once per call, a resolved call has
\* run it once and carries a code among 200, 404, 500 and a content type; a
\* call that waits has not resolved
C1_ResultOnce ==
    \A c \in Callers :
        /\ calls[c].resolves <= 1
        /\ Resolved(c) =>
              /\ calls[c].resolves = 1
              /\ calls[c].result.code \in {200, 404, 500}
              /\ calls[c].result.contentType \in {"text/plain", "application/json"}
        /\ Pending(c) => calls[c].resolves = 0 /\ calls[c].result.code = 0

\* C1: every call of add or query, whatever the path, the input and the
\* outcome of the storage operations, resolves exactly once with a code among
\* 200, 404, 500, and no call stays pending forever
C1_AlwaysResolves ==
    /\ []C1_ResultOnce
    /\ \A c \in Callers : Pending(c) ~> (Resolved(c) /\ calls[c].resolves = 1)

\* a query whose count failed in the storage engine has resolved
C1_Witness ==
    \E c \in Callers :
        /\ IsQuery(c) /\ calls[c].pc = "done" /\ "count" \in calls[c].ops
        /\ calls[c].storageFailed /\ calls[c].resolves = 1

\* C2: a call of add or query on a path that was not registered when it was
\* made has resolved with code 404 and made no storage operation: no
\* insertOne, find, count, skip or stream, no item built, nothing streamed;
\* and no insertOne was ever requested for a path that is not registered
C2_UnknownPath404 ==
    /\ \A c \in Callers :
          (calls[c].pc # "idle" /\ ~calls[c].known) =>
              /\ calls[c].pc = "done"
              /\ calls[c].resolves = 1
              /\ calls[c].result.code = 404
              /\ calls[c].ops = {}
              /\ calls[c].item = NoItem
              /\ calls[c].values = <<>>
              /\ ~calls[c].result.cursor
    /\ \A i \in inserts \cup acknowledged \cup failedInserts :
          hasOwnProperty(store, i.path)

\* a query with a filter and options on an unregistered path has resolved
C2_Witness ==
    \E c \in Callers :
        /\ IsQuery(c) /\ ~calls[c].known /\ calls[c].pc = "done"
        /\ calls[c].filter # EmptyObject /\ calls[c].options # EmptyObject

\* ---------------------------------------------------------- add: the claims
\* what the claims say of one declared field of an input: the first check it
\* fails, in the order required, type, validator, or "none"
FieldFailure(rule, data, key) ==
    LET value == IF key \in DOMAIN data THEN data[key] ELSE rule.defaultValue IN
    IF rule.required /\ key \notin DOMAIN data THEN "required"
    ELSE IF rule.type # "" /\ value.t # rule.type THEN "type"
    ELSE IF rule.validator # "" /\ CallValidator(rule.validator, value) = Returned(Bool(FALSE))
    THEN "validator"
    ELSE "none"

FailureText ==
    [f \in {"required", "type", "validator"} |->
        CASE f = "required" -> "Missing required property"
          [] f = "type" -> "Invalid type for property"
          [] f = "validator" -> "Validation failed for property"]

\* the positions, in the order of registration, of the fields that fail
FailingAt(indexes, data) ==
    {i \in 1..Len(indexes.keys) :
        FieldFailure(indexes.props[indexes.keys[i]], data, indexes.keys[i]) # "none"}

FirstFailing(indexes, data) ==
    CHOOSE i \in FailingAt(indexes, data) : \A j \in FailingAt(indexes, data) : i <= j

\* the transform hook of the call's handler throws on its input
TransformThrows(c) ==
    calls[c].handler.transform # ""
        /\ CallTransform(calls[c].handler.transform, calls[c].data).threw

\* the input of the call as the checks see it: after the transform hook
Transformed(c) ==
    IF calls[c].handler.transform # "" /\ ~TransformThrows(c)
    THEN CallTransform(calls[c].handler.transform, calls[c].data).value
    ELSE calls[c].data

\* the derive-value hook of the field at position i throws on its value
DeriveThrowsAt(indexes, data, i) ==
    LET rule == indexes.props[indexes.keys[i]]
        value == IF indexes.keys[i] \in DOMAIN data THEN data[indexes.keys[i]]
                 ELSE rule.defaultValue
    IN  rule.value # "" /\ CallValue(rule.value, value, 0).threw

\* a hook throws before the checks reach a failing field (or with no field
\* failing): add ends on the hook's exception, not on a validation error
HookThrowsFirst(c) ==
    LET indexes == calls[c].handler.indexes
        failing == FailingAt(indexes, Transformed(c))
    IN  \/ TransformThrows(c)
        \/ \E i \in 1..Len(indexes.keys) :
              /\ DeriveThrowsAt(indexes, Transformed(c), i)
              /\ \A j \in failing : i < j

\* the call is an add on a registered path whose input fails a check
FailsValidation(c) ==
    /\ IsAdd(c) /\ calls[c].known
    /\ ~HookThrowsFirst(c)
    /\ FailingAt(calls[c].handler.indexes, Transformed(c)) # {}

\* the call is an add on a registered path whose input passes every check,
\* with no hook throwing
PassesValidation(c) ==
    /\ IsAdd(c) /\ calls[c].known
    /\ ~HookThrowsFirst(c)
    /\ FailingAt(calls[c].handler.indexes, Transformed(c)) = {}

\* every insertOne request made so far, whatever became of it
Requested == inserts \cup acknowledged \cup failedInserts

\* the records of the collections
Stored == UNION {{collections[p][i] : i \in 1..Len(collections[p])} : p \in Paths}

\* C3: when a declared field of the input fails the required, type or
\* validator check, or the transform or a derive-value hook throws, the call
\* has resolved without an insertOne and without an item; and every record
\* that was handed to insertOne or is in a collection passed the check of
\* every declared field of the configuration add checked it against
C3_NoInsertUnlessValid ==
    /\ \A c \in Callers :
          (IsAdd(c) /\ calls[c].known /\ ~PassesValidation(c)) =>
              /\ calls[c].pc = "done"
              /\ calls[c].result.code = 500
              /\ "insertOne" \notin calls[c].ops
              /\ calls[c].item = NoItem
    /\ \A r \in {i.item : i \in Requested} \cup Stored :
          FailingAt(r.indexes, r.data) = {}

\* an add whose derive-value hook threw has resolved, with records in the
\* collection of its path
C3_Witness ==
    \E c \in Callers :
        /\ IsAdd(c) /\ calls[c].known /\ calls[c].pc = "done"
        /\ ~TransformThrows(c)
        /\ FailingAt(calls[c].handler.indexes, Transformed(c)) = {}
        /\ HookThrowsFirst(c)
        /\ collections[calls[c].path] # <<>>

\* C4, as claimed: every record of a collection satisfies the configuration
\* it was checked against, for the value stored: a required field is
\* present, the stored value has the declared type and the declared
\* validator accepts it
C4_StoredValueSatisfiesSchema ==
    \A r \in Stored : \A key \in DOMAIN r.indexes.props :
        LET rule == r.indexes.props[key] IN
        /\ rule.required => key \in DOMAIN r.item
        /\ key \in DOMAIN r.item
        /\ rule.type # "" => r.item[key].t = rule.type
        /\ rule.validator # "" =>
              CallValidator(rule.validator, r.item[key]) = Returned(Bool(TRUE))

\* C4, amended: every record of a collection satisfies the configuration it
\* was checked against, for the value that was checked: a required field is
\* present in the payload, the input value (or the default put in its place)
\* has the declared type and the declared validator accepts it; the value
\* stored is that value or, when the rule has a derive-value hook, the result
\* of the hook, which is not checked
C4_CheckedValueSatisfiesSchema ==
    \A r \in Stored : \A key \in DOMAIN r.indexes.props :
        LET rule == r.indexes.props[key]
            value == IF key \in DOMAIN r.data THEN r.data[key] ELSE rule.defaultValue
        IN  /\ rule.required => key \in DOMAIN r.data
            /\ rule.type # "" => value.t = rule.type
            /\ rule.validator # "" =>
                  CallValidator(rule.validator, value) = Returned(Bool(TRUE))
            /\ key \in DOMAIN r.item
            /\ r.item[key] = IF rule.value = "" THEN value
                             ELSE CallValue(rule.value, value, r.timestamp).value

\* a collection holds a record whose level is the result of the derive-value
\* hook applied to the default
C4_Witness ==
    \E r \in Stored :
        /\ r.indexes = LevelIndexes
        /\ "level" \notin DOMAIN r.data
        /\ r.item["level"] = Str("low")

\* C5: when declared fields of the input fail their checks, the message add
\* resolves with names the first failing field in the order of registration,
\* with the text of the first check that field fails in the order required,
\* type, validator
C5_FirstFailingFieldNamed ==
    \A c \in Callers :
        FailsValidation(c) =>
            LET indexes == calls[c].handler.indexes
                key == indexes.keys[FirstFailing(indexes, Transformed(c))]
            IN  /\ calls[c].pc = "done"
                /\ calls[c].result.content.key = key
                /\ calls[c].result.content.text =
                      FailureText[FieldFailure(indexes.props[key], Transformed(c), key)]

\* an add whose input has two invalid fields has resolved
C5_Witness ==
    \E c \in Callers :
        /\ FailsValidation(c) /\ calls[c].pc = "done"
        /\ Cardinality(FailingAt(calls[c].handler.indexes, Transformed(c))) = 2

\* C6: an add on a registered path whose input passes validation, and which
\* no storage failure stopped, resolves with code 200 and an empty body; one
\* whose input fails validation resolves with code 500 and a message that
\* names the first failing field
C6_AddStatusMapping ==
    \A c \in Callers :
        /\ (PassesValidation(c) /\ calls[c].pc = "done" /\ ~calls[c].storageFailed) =>
              /\ calls[c].result.code = 200
              /\ calls[c].result.content = NoMessage
              /\ calls[c].result.contentType = "text/plain"
        /\ FailsValidation(c) =>
              /\ calls[c].pc = "done"
              /\ calls[c].result.code = 500
              /\ calls[c].result.content.key \in DOMAIN calls[c].handler.indexes.props
              /\ FieldFailure(calls[c].handler.indexes.props[calls[c].result.content.key],
                              Transformed(c), calls[c].result.content.key) # "none"

\* add {type: 'info'} under the v1/logs handler has resolved with code 200
C6_Witness ==
    \E c \in Callers :
        /\ IsAdd(c) /\ calls[c].handler.indexes = LogsIndexes
        /\ calls[c].data = Obj1("type", Str("info"))
        /\ calls[c].pc = "done" /\ calls[c].result.code = 200

\* --------------------------------------------------- storage and the window
\* C7: a failure of the storage engine is answered with code 500 and the
\* generic body: an add whose insertOne failed has not resolved with code
\* 200, and a call whose collection, insertOne, find or count failed resolves
\* with code 500 and 'Internal server error'
C7_StorageFailureIs500 ==
    \A c \in Callers :
        /\ (IsAdd(c) /\ calls[c].pc = "done"
                /\ [path |-> calls[c].path, item |-> calls[c].item] \in failedInserts) =>
              /\ calls[c].result.code = 500
              /\ calls[c].result.content = InternalServerError
        /\ (calls[c].storageFailed /\ calls[c].pc = "done") =>
              /\ calls[c].result.code = 500
              /\ calls[c].result.content = InternalServerError

\* C8: once an add has resolved with code 200 for a record and the
\* collection holds it, a query on its path with its index values for filter
\* and no options, whose cursor did not fail, has the payload of the record
\* among its values
C8_ReadAfterWrite ==
    \A c \in Callers :
        (IsQuery(c) /\ calls[c].pc = "done" /\ calls[c].options = EmptyObject
            /\ ~calls[c].storageFailed /\ ~calls[c].streamError) =>
            \A a \in calls[c].written :
                (a.path = calls[c].path /\ calls[c].filter = a.item.item) =>
                    \E i \in 1..Len(calls[c].values) : calls[c].values[i] = a.item.data

\* the options carry a position that is a number
NumericPosition(options) ==
    /\ "position" \in DOMAIN options
    /\ \/ options["position"].t = "number" /\ options["position"].s = ""
       \/ options["position"].t = "string" /\ options["position"].s \in DOMAIN IntText

PositionAsked(options) ==
    IF options["position"].t = "number" THEN options["position"].n
    ELSE IntText[options["position"].s]

\* the call is a query on a registered path whose count has arrived
Counted(c) ==
    /\ IsQuery(c) /\ calls[c].known
    /\ calls[c].pc \in {"stream", "done"}
    /\ ~calls[c].storageFailed

\* the records that match the predicate of the call, in insertion order
Matching(c) == find(collections[calls[c].path], calls[c].query)

\* C9: the position a query reports is the count of the matching records
\* minus the limit of the request when the options carry no numeric
\* position, and the position asked when they do; and the first value
\* streamed is the matching record at that position, counted from 1 in
\* insertion order
C9_WindowPosition ==
    \A c \in Callers :
        Counted(c) =>
            /\ calls[c].result.position =
                  IF NumericPosition(calls[c].options)
                  THEN Num(PositionAsked(calls[c].options))
                  ELSE Num(calls[c].result.recordsCount - calls[c].result.limit.n)
            /\ (calls[c].pc = "done" /\ calls[c].values # <<>>) =>
                  /\ calls[c].result.position.n \in 1..Len(Matching(c))
                  /\ calls[c].values[1] =
                        streamTransform(Matching(c)[calls[c].result.position.n],
                                        calls[c].tsProperty)

\* C10: a query whose position is below 1 or above the count of the
\* matching records has resolved with code 200 and content type
\* application/json, without a skip or a stream on the cursor and without
\* values, and reports the count; and values are streamed only when the
\* position is a number from 1 to the count
C10_OutOfBoundsIsEmptySuccess ==
    \A c \in Callers :
        Counted(c) =>
            LET position == calls[c].result.position
                total == calls[c].result.recordsCount
            IN  /\ total = Len(Matching(c))
                /\ (Less(position, Num(1)) \/ Greater(position, Num(total))) =>
                      /\ calls[c].pc = "done"
                      /\ calls[c].result.code = 200
                      /\ calls[c].result.contentType = "application/json"
                      /\ calls[c].ops \cap {"skip", "limit", "stream"} = {}
                      /\ ~calls[c].result.cursor
                      /\ calls[c].values = <<>>
                /\ calls[c].values # <<>> =>
                      /\ IsNumber(position)
                      /\ position.n \in 1..total

\* --------------------------------------------------------- paging and links
\* the call is a query whose cursor was read to its end
Streamed(c) ==
    /\ Counted(c) /\ calls[c].pc = "done"
    /\ ~calls[c].streamError

\* the header of the response the HTTP layer sent for the call
Header(c) == calls[c].emitted[1]

\* the call is a query the HTTP layer answered with code 200 and a header
Answered(c) ==
    /\ calls[c].served /\ calls[c].status = 200
    /\ calls[c].emitted # <<>>

\* C11: a query with no position option on more matching records than the
\* limit returns exactly the limit most recent matching records, the last
\* one being the most recently inserted, and its response has a prev link
\* and no next link
C11_DefaultWindowIsTail ==
    \A c \in Callers :
        (Streamed(c) /\ "position" \notin DOMAIN calls[c].options
            /\ IsNumber(calls[c].result.limit)
            /\ calls[c].result.limit.n >= 1
            /\ Len(Matching(c)) > calls[c].result.limit.n) =>
            LET total == Len(Matching(c))
                limit == calls[c].result.limit.n
            IN  /\ calls[c].values =
                      [i \in 1..limit |->
                          streamTransform(Matching(c)[total - limit + i],
                                          calls[c].tsProperty)]
                /\ Answered(c) =>
                      /\ "next" \notin DOMAIN Header(c).links
                      /\ "prev" \in DOMAIN Header(c).links

\* the link carries this number as its '~position'
Carries(link, n) ==
    /\ "~position" \in DOMAIN link.parameters
    /\ link.parameters["~position"] \in DOMAIN IntText
    /\ IntText[link.parameters["~position"]] = n

At(c, kind) == {i \in 1..Len(calls[c].emitted) : calls[c].emitted[i].kind = kind}

\* C13: a query response with code 200 whose cursor was read to its end
\* with n values carries the header once and first, the n values in order,
\* n - 1 commas (none when n = 0), each between two values, and then once
\* each the closing of the array, the closing of the object and the end of
\* the stream, with nothing after it
C13_EnvelopeFraming ==
    \A c \in Callers :
        Answered(c) =>
            LET out == calls[c].emitted
                n == Len(calls[c].values)
                last == Len(out)
            IN  /\ At(c, "start") = {1}
                /\ Cardinality(At(c, "value")) = n
                /\ \A i \in 1..n : out[2 * i].kind = "value"
                                     /\ out[2 * i].value = calls[c].values[i]
                /\ Cardinality(At(c, ",")) = (IF n = 0 THEN 0 ELSE n - 1)
                /\ \A i \in At(c, ",") : /\ i - 1 \in At(c, "value")
                                         /\ i + 1 \in At(c, "value")
                /\ At(c, "]") = {last - 2}
                /\ At(c, "}") = {last - 1}
                /\ At(c, "end") = {last}
                /\ last = 1 + n + (IF n = 0 THEN 0 ELSE n - 1) + 3

\* a response with three values has been sent
C13_Witness ==
    \E c \in Callers : Answered(c) /\ Len(calls[c].values) = 3

\* C14: the limit a query reports is the limit option when the options
\* carry one that is a number not above globalConfig.maxLimit, it is
\* globalConfig.defaultLimit when they carry none, and it is never above
\* globalConfig.maxLimit
C14_EffectiveLimit ==
    \A c \in Callers :
        Counted(c) =>
            LET options == calls[c].options
                limit == calls[c].result.limit
            IN  /\ ("limit" \in DOMAIN options
                        /\ options["limit"].s \in DOMAIN IntText
                        /\ IntText[options["limit"].s] <= globalConfig.maxLimit) =>
                      limit = Num(IntText[options["limit"].s])
                /\ "limit" \notin DOMAIN options =>
                      limit = Num(globalConfig.defaultLimit)
                /\ ~Greater(limit, Num(globalConfig.maxLimit))
                /\ Answered(c) => Header(c).metadata.page_size = String(limit)

\* -------------------------------------------------------- the predicate
\* the call is a query on a registered path whose predicate was compiled
Compiled(c) ==
    /\ IsQuery(c) /\ calls[c].known
    /\ "find" \in calls[c].ops

\* the option is a number or a date string that can be parsed
Parseable(options, name) ==
    /\ name \in DOMAIN options
    /\ options[name].s \in DOMAIN IntText \cup DOMAIN DateText

\* the time a parseable option stands for
TimeOf(options, name) ==
    IF options[name].s \in DOMAIN IntText THEN IntText[options[name].s]
    ELSE DateText[options[name].s]

\* C15: the timestamp part of the compiled predicate is startTime <=
\* timestamp <= endTime when both options are supplied and parseable, the
\* lower bound alone when only startTime is supplied, the upper bound alone
\* when only endTime is supplied, and empty when neither is supplied
C15_TimeBounds ==
    \A c \in Callers :
        Compiled(c) =>
            LET options == calls[c].options
                timestamp == calls[c].query.timestamp
            IN  /\ (Parseable(options, "startTime") /\ Parseable(options, "endTime")) =>
                      timestamp = [op \in {"$gte", "$lte"} |->
                                      IF op = "$gte" THEN Num(TimeOf(options, "startTime"))
                                      ELSE Num(TimeOf(options, "endTime"))]
                /\ (Parseable(options, "startTime") /\ "endTime" \notin DOMAIN options) =>
                      timestamp = [op \in {"$gte"} |-> Num(TimeOf(options, "startTime"))]
                /\ (Parseable(options, "endTime") /\ "startTime" \notin DOMAIN options) =>
                      timestamp = [op \in {"$lte"} |-> Num(TimeOf(options, "endTime"))]
                /\ DOMAIN options \cap {"startTime", "endTime"} = {} =>
                      timestamp = EmptyObject

\* the filter value is the text of a number
NumberText(value) == value.s \in DOMAIN IntText \cup DOMAIN FloatText

\* C16: the fields of the compiled predicate are filter keys that are
\* declared index fields of the handler; a filter key that is not declared
\* is left out and fails nothing; and a value for a field of type number
\* that is not the text of a number is left out, so that no field of type
\* number is compared with NaN
C16_FilterWithinSchema ==
    \A c \in Callers :
        Compiled(c) =>
            LET fields == calls[c].query.fields
                declared == calls[c].handler.indexes.props
            IN  /\ DOMAIN fields \subseteq DOMAIN calls[c].filter \cap DOMAIN declared
                /\ (calls[c].pc = "done" /\ ~calls[c].storageFailed) =>
                      calls[c].result.code = 200
                /\ \A key \in DOMAIN calls[c].filter \cap DOMAIN declared :
                      declared[key].type = "number" =>
                          /\ ~NumberText(calls[c].filter[key]) => key \notin DOMAIN fields
                          /\ key \in DOMAIN fields => fields[key] # NaN

\* C19: a startTime or endTime that is supplied and is neither a number nor
\* a parseable date leaves no constraint in the compiled predicate: no bound
\* of the predicate is compared with a value that is no number, and with
\* only an unparsable startTime supplied the predicate has no timestamp part
C19_UnparsableTimeDropped ==
    \A c \in Callers :
        Compiled(c) =>
            LET options == calls[c].options
                timestamp == calls[c].query.timestamp
            IN  /\ \A op \in DOMAIN timestamp : IsNumber(timestamp[op])
                /\ ("startTime" \in DOMAIN options /\ ~Parseable(options, "startTime")
                        /\ "endTime" \notin DOMAIN options) =>
                      timestamp = EmptyObject

\* C18: the prev link of a response whose position is above 1 carries
\* position 1 and a limit of position - 1 when position - limit is below 1,
\* and else position - limit and no limit of its own (at most the one of
\* the request); so the window the link asks for starts at record 1 or
\* later and ends at record position - 1
C18_PrevLinkClamping ==
    \A c \in Callers :
        (Answered(c) /\ IsNumber(calls[c].result.position)
            /\ calls[c].result.position.n > 1) =>
            /\ "prev" \in DOMAIN Header(c).links
            /\ LET position == calls[c].result.position.n
                   limit == calls[c].result.limit.n
                   asked == Header(c).links["prev"].parameters
                   start == IntText[asked["~position"]]
                   size == IF "~limit" \in DOMAIN asked THEN IntText[asked["~limit"]]
                           ELSE limit
               IN  /\ position - limit < 1 =>
                         /\ start = 1
                         /\ "~limit" \in DOMAIN asked
                         /\ size = position - 1
                   /\ position - limit >= 1 =>
                         /\ start = position - limit
                         /\ "~limit" \in DOMAIN asked =>
                               /\ "limit" \in DOMAIN calls[c].options
                               /\ asked["~limit"] = calls[c].options["limit"].s
                   /\ start >= 1
                   /\ start + size - 1 = position - 1

\* ------------------------------------------------------------ registration
\* the arguments of handle carry a rule whose type is set and is none of
\* boolean, number and string, or whose validator or derive-value hook is
\* set and is no function, or a transform that is set and is no function
BadSchema(config) ==
    \/ \E key \in DOMAIN config.indexes.props :
          LET rule == config.indexes.props[key] IN
          \/ rule.type \notin {"", "boolean", "number", "string"}
          \/ rule.validator = "notAFunction"
          \/ rule.value = "notAFunction"
    \/ config.transform = "notAFunction"

\* C17: a call of handle with a bad schema throws and changes neither the
\* registry nor the index creations requested; so every entry of the
\* registry has a good schema
C17_BadSchemaRejected ==
    /\ [](\A path \in DOMAIN store : ~BadSchema(store[path]))
    /\ [][\A path \in HandlePaths, config \in CoreConfigs :
             (BadSchema(config) /\ handle(path, config.indexes, config.transform)) =>
                 /\ thrown'
                 /\ store' = store
                 /\ indexRequests' = indexRequests]_vars

\* handle has thrown on a path that is registered
C17_Witness ==
    /\ thrown
    /\ \E path \in HandlePaths : hasOwnProperty(store, path)
    /\ indexRequests # {}

\* ---------------------------------------------------------------- defaults
\* the value of a declared field that the checks of add see
Checked(rule, data, key) ==
    IF key \in DOMAIN data THEN data[key] ELSE rule.defaultValue

\* the add calls whose first failing field is optional and absent: its
\* default fails the type or the validator check
DefaultFails(c) ==
    /\ FailsValidation(c)
    /\ LET indexes == calls[c].handler.indexes
           key == indexes.keys[FirstFailing(indexes, Transformed(c))]
       IN  /\ ~indexes.props[key].required
           /\ key \notin DOMAIN Transformed(c)

\* what C20 says of a failing default: add has resolved with the validation
\* error of that field, and nothing was stored
DefaultFailureNamed(c) ==
    LET indexes == calls[c].handler.indexes
        key == indexes.keys[FirstFailing(indexes, Transformed(c))]
    IN  /\ calls[c].pc = "done"
        /\ calls[c].result.code = 500
        /\ calls[c].result.content.key = key
        /\ calls[c].result.content.text \in
              {"Invalid type for property", "Validation failed for property"}
        /\ "insertOne" \notin calls[c].ops
        /\ calls[c].item = NoItem

\* C20, as claimed: for an optional declared field that is absent from the
\* input the value checked and stored is the default of the rule, a field
\* that is present never takes the default, and a default that fails the
\* type or the validator check makes add fail with the validation error of
\* that field, nothing being stored
C20_DefaultCheckedAndStored ==
    /\ \A r \in {i.item : i \in Requested} \cup Stored :
          \A key \in DOMAIN r.indexes.props :
              LET rule == r.indexes.props[key] IN
              ~rule.required =>
                  /\ FieldFailure(rule, r.data, key) = "none"
                  /\ r.item[key] = Checked(rule, r.data, key)
    /\ \A c \in Callers : DefaultFails(c) => DefaultFailureNamed(c)

\* C20, amended: for an optional declared field that is absent from the
\* input the value checked is the default of the rule, and the value stored
\* is that default or, when the rule has a derive-value hook, the result of
\* the hook on it; a field that is present is checked and stored (through
\* the hook, if any) with the value of the input; and a default that fails
\* the type or the validator check makes add fail with the validation error
\* of that field, nothing being stored
C20_DefaultCheckedThenStored ==
    /\ \A r \in {i.item : i \in Requested} \cup Stored :
          \A key \in DOMAIN r.indexes.props :
              LET rule == r.indexes.props[key] IN
              ~rule.required =>
                  /\ FieldFailure(rule, r.data, key) = "none"
                  /\ r.item[key] =
                        IF rule.value = "" THEN Checked(rule, r.data, key)
                        ELSE CallValue(rule.value, Checked(rule, r.data, key),
                                       r.timestamp).value
    /\ \A c \in Callers : DefaultFails(c) => DefaultFailureNamed(c)

\* a record stored with the default of its absent type is in the collection,
\* and an add whose absent level has no default has failed
C20_Witness ==
    /\ \E r \in Stored :
          /\ r.indexes = OptionalIndexes
          /\ "type" \notin DOMAIN r.data
          /\ r.item["type"] = Str("info")
    /\ \E c \in Callers :
          /\ DefaultFails(c) /\ calls[c].pc = "done"
          /\ calls[c].result.content.key = "level"

\* ------------------------------------------------- acknowledgement and order
\* the insertOne request of the add call
InsertOf(c) == [path |-> calls[c].path, item |-> calls[c].item]

\* the adds acknowledged when the call was made whose record is on the path
\* of the query and satisfies its predicate
AckedMatching(c) ==
    {a \in calls[c].acked : a.path = calls[c].path /\ matches(a.item, calls[c].query)}

\* C22: an add that has resolved with code 200 has its record in the
\* collection: the insertOne of the request completed, successfully, before
\* the call resolved; and the count a query reports includes every record
\* whose add had resolved with code 200 when the query was made
C22_AckAfterWrite ==
    \A c \in DOMAIN calls :
        /\ (IsAdd(c) /\ calls[c].pc = "done" /\ calls[c].result.code = 200) =>
              /\ InsertOf(c) \notin inserts \cup failedInserts
              /\ calls[c].item \in Stored
        /\ Counted(c) =>
              calls[c].result.recordsCount >= Cardinality(AckedMatching(c))

\* ---------------------------------------------------------- the page size
\* the lesser of two numbers
Min(a, b) == IF a < b THEN a ELSE b

\* C24: a query response with code 200 that the HTTP layer served carries at
\* most as many values as the page_size of its metadata, and exactly the
\* lesser of page_size and total_records - position + 1 when the position is
\* from 1 to total_records and the collection did not change after the count
C24_PageWithinSize ==
    \A c \in DOMAIN calls :
        (Answered(c) /\ Header(c).metadata.page_size \in DOMAIN IntText) =>
            LET size == IntText[Header(c).metadata.page_size]
                position == calls[c].result.position
                total == calls[c].result.recordsCount
                values == Cardinality(At(c, "value"))
            IN  /\ values <= size
                /\ (IsNumber(position) /\ position.n \in 1..total
                        /\ total = Len(Matching(c))) =>
                      values = Min(size, total - position.n + 1)

\* -------------------------------------------------------- forward traversal
\* the windows of the pages of the traversal that ends with the call
Pages(c) == Append(calls[c].trail, Window(calls[c]))

\* the record indexes a window reports: position .. position + size - 1
Covers(window) ==
    IF IsNumber(window.position) /\ IsNumber(window.size)
    THEN window.position.n .. (window.position.n + window.size.n - 1)
    ELSE {}

\* C23: when a client starts at position 1 and follows the next links until
\* a response carries none, the windows the visited pages report cover every
\* record index from 1 to total_records, for a total of at least 1
C23_ForwardTraversalComplete ==
    \A c \in DOMAIN calls :
        (Answered(c) /\ "next" \notin DOMAIN Header(c).links
            /\ Pages(c)[1].position = Num(1)
            /\ calls[c].result.recordsCount >= 1) =>
            \A index \in 1..calls[c].result.recordsCount :
                \E i \in 1..Len(Pages(c)) : index \in Covers(Pages(c)[i])

\* --------------------------------------------------------------- concurrency
\* the item add builds from the input of the call alone, under the handler
\* the path had when the call was made
OwnItem(c) ==
    LET built == buildItem(calls[c].handler, calls[c].data, calls[c].item.timestamp)
    IN  Record(built.item, calls[c].item.timestamp, built.data, calls[c].handler.indexes)

\* the result of the call is the one its own input determines
OwnResult(c) ==
    /\ (~calls[c].known /\ calls[c].pc # "idle") =>
          /\ calls[c].pc = "done" /\ calls[c].result.code = 404
          /\ calls[c].ops = {}
    /\ PassesValidation(c) =>
          /\ calls[c].item = OwnItem(c)
          /\ calls[c].pc = "done" =>
                calls[c].result.code = (IF calls[c].storageFailed THEN 500 ELSE 200)
          /\ (calls[c].pc = "done" /\ calls[c].result.code = 200) =>
                InsertOf(c) \in Requested \cup [path : Paths, item : Stored]
    /\ Counted(c) =>
          /\ calls[c].query = buildQuery(calls[c].handler, calls[c].filter, calls[c].options)
          /\ calls[c].result.limit =
                limitOf(calls[c].fn, calls[c].options, globalConfig)
          /\ calls[c].result.position =
                startOf(calls[c].options, calls[c].result.recordsCount,
                        calls[c].result.limit)
          /\ calls[c].result.code = 200

\* the step is the one in which the add of the caller resolves with code 200
Acknowledges(c) ==
    /\ IsAdd(c) /\ calls[c].pc = "collection"
    /\ calls'[c].pc = "done" /\ calls'[c].result.code = 200

\* C21: with calls of two callers interleaved in every way, on the same and
\* on different paths: a step of one call leaves the other call as it is;
\* an add that resolves with code 200 makes in that step one insertOne
\* request, for the record built from its own input, and no other step
\* makes a request; every call has the result its own input determines; and
\* no step of add or query changes the schema registry
C21_ConcurrentCallsIndependent ==
    /\ [](\A c \in DOMAIN calls : OwnResult(c))
    /\ [][/\ \A c \in DOMAIN calls :
               /\ calls'[c] # calls[c] =>
                     \A d \in DOMAIN calls \ {c} : calls'[d] = calls[d]
               /\ Acknowledges(c) =>
                     /\ InsertOf(c) = [path |-> calls[c].path, item |-> OwnItem(c)]
                     /\ InsertOf(c) \notin Requested
                     /\ inserts' = inserts \cup {InsertOf(c)}
           /\ inserts' \ inserts # {} => \E a \in DOMAIN calls : Acknowledges(a)
           /\ (calls' # calls \/ inserts' # inserts \/ collections' # collections) =>
                 store' = store]_vars

\* two adds ran at the same time on different paths: the one made later
\* has resolved with code 200 and its record is written, while the one made
\* earlier still waits for its collection
C21_Witness ==
    \E c, d \in DOMAIN calls :
        /\ IsAdd(c) /\ IsAdd(d)
        /\ calls[c].path # calls[d].path
        /\ calls[c].data # calls[d].data
        /\ calls[d].pc = "collection"
        /\ calls[c].pc = "done" /\ calls[c].result.code = 200
        /\ calls[c].item.timestamp > calls[d].item.timestamp
        /\ calls[c].item \in Stored
====
